---- MODULE Spec2Model ----
(***************************************************************************)
(* A model of MultiMCP (src/mcp_servers/multi_mcp.py): a router that       *)
(* launches several subprocess-backed services, keeps one session and one  *)
(* tool list per service, and dispatches tool calls under a 20 s deadline. *)
(*                                                                         *)
(* The coroutines start(), stop() and one caller (call_tool,               *)
(* route_tool_call, function_wrapper or one of the listing functions) are  *)
(* tasks of one event loop: each action is the code between two awaits, so *)
(* the tasks interleave exactly at the awaits.  The remote services, the   *)
(* process launcher, the host and the clock are the environment.           *)
(*                                                                         *)
(* Channels: entering stdio_client and ClientSession for one service       *)
(* (lines 68-69) is one step that opens one channel and pushes its exit on *)
(* the exit stack; a channel counts as closed once aclose() has run its    *)
(* exit, whether or not that exit raised.                                  *)
(*                                                                         *)
(* Time: every wait_for has a timer that starts at 0.  Tick advances all   *)
(* running timers by the same amount, at most TickUnit and never past the  *)
(* nearest deadline; at its deadline a wait_for raises TimeoutError and    *)
(* takes no answer any more.  An await without wait_for has no timer: the  *)
(* remote side either answers (start.remote = "respond") or never does     *)
(* ("hang").                                                               *)
(*                                                                         *)
(* Exceptions are values: an operation ends with [how |-> "raised", ...]   *)
(* when an exception leaves it.  Strings are sequences of tokens.          *)
(*                                                                         *)
(* Spec is the router with the built-in configuration on a host that has   *)
(* uv.  SpecLaunch runs start() for one service over every declared        *)
(* command, argument list and host; SpecAdapter runs function_wrapper on a *)
(* started router over every schema shape.                                 *)
(***************************************************************************)
EXTENDS Integers, Sequences, FiniteSets, TLC

(* ------------------------------ bounds -------------------------------- *)

\* number of configured services (a configuration is a prefix of DefaultNames)
MaxServices == 2
\* number of times start() is called in one run
MaxStarts == 2
\* the clock advances by at most this many time units per step
TickUnit == 10
\* number of positional values handed to function_wrapper
MaxArgs == 2
\* number of service names handed to get_tools_from_servers
MaxNames == 2

(* --------------------------- program constants ------------------------ *)

\* wait_for(session.initialize(), timeout=20.0)
InitTimeout == 20
\* wait_for(session.call_tool(...), timeout=20.0)
CallTimeout == 20

(* ------------------------------ helpers -------------------------------- *)

Min(a, b) == IF a <= b THEN a ELSE b

Range(s) == {s[i] : i \in 1..Len(s)}

\* the service names of the built-in configuration, in its order
DefaultNames == <<"browser", "rag", "sandbox">>

ServerNames == Range(DefaultNames)

\* one entry of server_configs: the service name (the key) and the "command" and
\* "args" of its config; command is "none" when the config has no "command" key,
\* and a config without "args" has the same effect as args = []
Config(n, c, a) == [name |-> n, command |-> c, args |-> a]

\* the built-in configuration of _load_config: every service is run by uv
DefaultConfig ==
    [i \in 1..Len(DefaultNames) |->
        Config(DefaultNames[i], "uv", <<"run", <<"script", DefaultNames[i]>>>>)]

\* the configurations: the first n services, 0 <= n <= MaxServices
Configs == {SubSeq(DefaultConfig, 1, n) : n \in 0..Min(MaxServices, Len(DefaultNames))}

\* sys.executable: the interpreter that runs the router
Interpreter == "python"

\* the commands a config may declare
Commands == {"none", "uv", "npx"}

\* the argument lists a config may declare
ArgLists == { <<>>, <<"run">>, <<"run", "server.py">>, <<"server.py", "run">> }

\* the hosts: the sets of commands that are installed
Hosts == SUBSET {"uv", "npx"}

\* the host of the built-in configuration: uv is installed
DefaultHost == {"uv"}

\* the exception classes that reach the handlers of the model
Exceptions == {"OSError", "McpError", "TimeoutError", "ValueError", "AttributeError"}

(* --------------------------- tool descriptors -------------------------- *)

\* a Tool: its name and the parameter names of inputSchema["properties"], in
\* declaration order; hasProps is FALSE when the schema has no "properties"
Tool(n, hp, ps) == [name |-> n, hasProps |-> hp, props |-> ps]

\* the tool lists a service may answer list_tools() with
ToolLists ==
    { <<>>,
      << Tool("echo", TRUE, <<"text">>), Tool("add", TRUE, <<"x", "y">>) >>,
      << Tool("add", FALSE, <<>>), Tool("echo", TRUE, <<"x", "y">>) >> }

\* the tool names callers ask for
ToolNames == {"echo", "missing"}

\* argument mappings (ordered key/value pairs) handed to call_tool / route_tool_call
ArgMaps == { << <<"x", "v1">>, <<"y", "v2">> >> }

\* the positional values handed to function_wrapper
AllValues == <<"v1", "v2", "v3", "v4">>

ValueLists == {SubSeq(AllValues, 1, n) : n \in 0..Min(MaxArgs, Len(AllValues))}

\* the lists of service names handed to get_tools_from_servers: any names in any
\* order, a name possibly more than once
NameLists == UNION {[1..n -> ServerNames] : n \in 0..MaxNames}

(* ------------------------------- state --------------------------------- *)

VARIABLES
    server_configs,  \* self.server_configs: the configured services, in order
    path,            \* the host: the commands shutil.which() finds
    channels,        \* every channel opened so far: id -> [server, closes]
    exit_stack,      \* self.exit_stack: ids of the entered contexts, last entered last
    sessions,        \* self.sessions: server name -> channel id of its session
    tools,           \* self.tools: server name -> list of Tool
    toolsOrder,      \* insertion order of the keys of self.tools
    start,           \* the start() task
    stop,            \* the stop() task
    call             \* the caller task

vars == <<server_configs, path, channels, exit_stack, sessions, tools, toolsOrder,
          start, stop, call>>


(* ------------------------- dictionaries of Python ---------------------- *)

\* d[k] = v on a dict
DictSet(d, k, v) == [n \in DOMAIN d \cup {k} |-> IF n = k THEN v ELSE d[n]]

\* the key order of a dict after d[k] = v: a new key goes last, an old key stays
OrderSet(order, k) == IF k \in Range(order) THEN order ELSE Append(order, k)

Empty == [n \in {} |-> 0]

(* ------------------------------ start() -------------------------------- *)

\* the id of the channel opened for the idx-th pool name in the round-th start()
ChanId(round, idx) == (round - 1) * Len(DefaultNames) + idx

NoOutcome == [n \in ServerNames |-> "none"]

\* a launch: the command and the arguments handed to StdioServerParameters
Launch(c, a) == [command |-> c, args |-> a]

NoLaunch == Launch("none", <<>>)

\* launch is the command line of the latest launch start() has attempted
StartIdle ==
    [pc |-> "idle", idx |-> 0, round |-> 0, ch |-> 0, elapsed |-> 0,
     remote |-> "none", outcome |-> NoOutcome, result |-> "none",
     launch |-> NoLaunch]

\* cmd = config.get("command", "uv")
DeclaredCommand(config) == IF config.command = "none" THEN "uv" ELSE config.command

\* shutil.which(cmd) finds the command on the host
Which(cmd) == cmd \in path

\* if args and args[0] == "run": args = args[1:] if len(args) > 1 else []
FixupArgs(args) == IF args # <<>> /\ args[1] = "run" THEN Tail(args) ELSE args

\* a resolution that swaps the command and keeps the arguments of uv
ResolveCommandKeepArgs(config) ==
    LET cmd == DeclaredCommand(config) IN
    IF cmd = "uv" /\ ~Which("uv")
    THEN Launch(Interpreter, config.args)
    ELSE Launch(cmd, config.args)

\* the command line start() launches a service with: uv is replaced by the
\* interpreter when the host has no uv, and then a leading "run" is dropped
ResolveCommand(config) ==
    LET cmd == DeclaredCommand(config) IN
    IF cmd = "uv" /\ ~Which("uv")
    THEN Launch(Interpreter, FixupArgs(config.args))
    ELSE Launch(cmd, config.args)

\* the host can spawn the command: the interpreter is the running one
Spawnable(cmd) == cmd = Interpreter \/ Which(cmd)

\* how the remote side behaves during one await: it answers, or it never does
RemoteBehaviours == {"respond", "hang"}

\* except asyncio.TimeoutError (the inner handler)
InnerHandler(exc) == exc = "TimeoutError"

\* a handler that takes launch failures only
OuterHandlerNarrow(exc) == exc = "OSError"

\* except Exception (the outer handler)
OuterHandler(exc) == exc \in Exceptions

\* a context that is entered without being handed to the exit stack
EnterContextUnmanaged(stack, id) == stack

\* self.exit_stack.enter_async_context(...): the context is pushed on the stack
EnterContext(stack, id) == Append(stack, id)

\* the for loop moves to the next configured service, or start() returns
NextService(st) ==
    IF st.idx < Len(server_configs)
    THEN [st EXCEPT !.pc = "open", !.idx = st.idx + 1, !.ch = 0, !.elapsed = 0,
                    !.remote = "none"]
    ELSE [st EXCEPT !.pc = "idle", !.idx = 0, !.ch = 0, !.elapsed = 0,
                    !.remote = "none", !.result = "returned"]

\* an exception raised while the current service starts: a handler logs it and the
\* loop goes on; an exception no handler takes leaves start()
StartRaise(st, exc, kind) ==
    IF InnerHandler(exc) \/ OuterHandler(exc)
    THEN NextService([st EXCEPT !.outcome[server_configs[st.idx].name] = kind])
    ELSE [st EXCEPT !.pc = "idle", !.idx = 0, !.ch = 0, !.elapsed = 0,
                    !.remote = "none", !.result = "raised",
                    !.outcome[server_configs[st.idx].name] = kind]

\* start() is called
StartBegin ==
    /\ start.pc = "idle"
    /\ start.round < MaxStarts
    /\ LET st == [start EXCEPT !.round = start.round + 1, !.outcome = NoOutcome,
                               !.result = "none", !.idx = 0]
           nx == NextService(st)
       IN /\ start' = nx
    /\ UNCHANGED <<server_configs, path, channels, exit_stack, sessions, tools,
                   toolsOrder, stop, call>>

\* the command line is resolved and stdio_client and ClientSession are entered:
\* the channel is open and on the exit stack, or the launch raises; a command
\* the host does not have cannot be spawned
StartOpen ==
    /\ start.pc = "open"
    /\ LET config == server_configs[start.idx]
           params == ResolveCommand(config)
           id     == ChanId(start.round, start.idx)
       IN \/ /\ Spawnable(params.command)
             /\ channels' = DictSet(channels, id,
                                    [server |-> config.name, closes |-> 0,
                                     command |-> params.command, args |-> params.args])
             /\ exit_stack' = EnterContext(exit_stack, id)
             /\ start' = [start EXCEPT !.pc = "init", !.ch = id, !.elapsed = 0,
                                       !.launch = params]
          \/ LET nx == StartRaise([start EXCEPT !.launch = params],
                                  "OSError", "LaunchFailure") IN
               /\ start' = nx
               /\ UNCHANGED <<channels, exit_stack>>
    /\ UNCHANGED <<server_configs, path, sessions, tools, toolsOrder, stop, call>>

\* session.initialize() answers before the deadline: the handshake is done, or it
\* raises
StartInitDone ==
    /\ start.pc = "init"
    /\ start.elapsed < InitTimeout
    /\ \/ \E rb \in RemoteBehaviours :
            /\ start' = [start EXCEPT !.pc = "list", !.elapsed = 0, !.remote = rb]
       \/ LET nx == StartRaise(start, "McpError", "OtherFailure") IN
            /\ start' = nx
    /\ UNCHANGED <<server_configs, path, channels, exit_stack, sessions, tools,
                   toolsOrder, stop, call>>

\* the deadline of wait_for(session.initialize(), 20.0) passes
StartInitTimeout ==
    /\ start.pc = "init"
    /\ start.elapsed = InitTimeout
    /\ LET nx == StartRaise(start, "TimeoutError", "HandshakeTimeout") IN
         /\ start' = nx
    /\ UNCHANGED <<server_configs, path, channels, exit_stack, sessions, tools,
                   toolsOrder, stop, call>>

\* a registration that stores the tool list and leaves the session for later
StartListDoneToolsOnly ==
    /\ start.pc = "list"
    /\ start.remote = "respond"
    /\ \/ \E tl \in ToolLists :
            LET name == server_configs[start.idx].name
                nx == NextService([start EXCEPT !.outcome[name] = "ok"])
            IN /\ tools' = DictSet(tools, name, tl)
               /\ toolsOrder' = OrderSet(toolsOrder, name)
               /\ start' = nx
               /\ UNCHANGED sessions
       \/ LET nx == StartRaise(start, "McpError", "OtherFailure") IN
            /\ start' = nx
            /\ UNCHANGED <<sessions, tools, toolsOrder>>
    /\ UNCHANGED <<server_configs, path, channels, exit_stack, stop, call>>

\* session.list_tools() answers: the session and its tools are registered, or it
\* raises
StartListDone ==
    /\ start.pc = "list"
    /\ start.remote = "respond"
    /\ \/ \E tl \in ToolLists :
            LET name == server_configs[start.idx].name
                nx == NextService([start EXCEPT !.outcome[name] = "ok"])
            IN /\ sessions' = DictSet(sessions, name, start.ch)
               /\ tools' = DictSet(tools, name, tl)
               /\ toolsOrder' = OrderSet(toolsOrder, name)
               /\ start' = nx
       \/ LET nx == StartRaise(start, "McpError", "OtherFailure") IN
            /\ start' = nx
            /\ UNCHANGED <<sessions, tools, toolsOrder>>
    /\ UNCHANGED <<server_configs, path, channels, exit_stack, stop, call>>

(* ------------------------------- stop() -------------------------------- *)

StopIdle == [pc |-> "idle", pending |-> FALSE, result |-> "none"]

\* what stop() hands its caller when aclose() ends: aclose() re-raises the last
\* exception a context raised on exit, and stop() has no handler
AcloseResult(pending) == IF pending THEN "raised" ELSE "returned"

\* stop() is called
StopBegin ==
    /\ stop.pc = "idle"
    /\ stop' = [pc |-> "closing", pending |-> FALSE, result |-> "none"]
    /\ UNCHANGED <<server_configs, path, channels, exit_stack, sessions, tools,
                   toolsOrder, start, call>>

\* aclose() pops the last entered context and exits it; the exit may raise
StopClose ==
    /\ stop.pc = "closing"
    /\ exit_stack # <<>>
    /\ LET id == exit_stack[Len(exit_stack)] IN
         /\ exit_stack' = SubSeq(exit_stack, 1, Len(exit_stack) - 1)
         /\ channels' = [channels EXCEPT ![id].closes = channels[id].closes + 1]
    /\ \E fails \in BOOLEAN : stop' = [stop EXCEPT !.pending = stop.pending \/ fails]
    /\ UNCHANGED <<server_configs, path, sessions, tools, toolsOrder, start, call>>

\* no context is left: aclose() ends and stop() with it
StopEnd ==
    /\ stop.pc = "closing"
    /\ exit_stack = <<>>
    /\ stop' = [stop EXCEPT !.pc = "idle", !.result = AcloseResult(stop.pending)]
    /\ UNCHANGED <<server_configs, path, channels, exit_stack, sessions, tools,
                   toolsOrder, start, call>>

(* ------------------------- results and failures ------------------------ *)

\* Strings are sequences of tokens: a formatted message is the concatenation of
\* its literal pieces and the values formatted into it.

Contains(str, token) == \E i \in 1..Len(str) : str[i] = token

NoResult == [content |-> <<>>, real |-> FALSE]

\* the CallToolResult values a service may answer with: a text payload first, a
\* first element without text, no content at all
RemoteResults ==
    { [content |-> << [type |-> "text", text |-> "payload"] >>, real |-> TRUE],
      [content |-> << [type |-> "image", text |-> "none"] >>, real |-> TRUE],
      [content |-> <<>>, real |-> TRUE] }

\* str(result)
Str(result) == <<"CallToolResult", Len(result.content)>>

\* how an operation ends: it returns a raw result, returns a string, or raises
Return(result) == [how |-> "returned", exc |-> "none", text |-> <<>>, result |-> result]

ReturnStr(str) == [how |-> "returned", exc |-> "none", text |-> str, result |-> NoResult]

Raise(exc, msg) == [how |-> "raised", exc |-> exc, text |-> msg, result |-> NoResult]

NoOutcomeYet == [how |-> "none", exc |-> "none", text |-> <<>>, result |-> NoResult]

\* raise ValueError(f"Server '{server_name}' not connected")
NotConnected(server) == Raise("ValueError", <<"Server '", server, "' not connected">>)

\* raise TimeoutError(f"Tool '{tool_name}' on server '{server_name}' timed out
\* after 20 seconds.")
TimedOut(server, tool) ==
    Raise("TimeoutError",
          <<"Tool '", tool, "' on server '", server, "' timed out after 20 seconds.">>)

\* raise ValueError(f"Tool '{tool_name}' not found in any server")
NotFound(tool) == Raise("ValueError", <<"Tool '", tool, "' not found in any server">>)

\* return f"Error: Tool {tool_name} not found"
WrapperNotFound(tool) == ReturnStr(<<"Error: Tool ", tool, " not found">>)

\* function_wrapper without its except clause, the text read outside the try
UnpackNoHandler(tool, out) ==
    IF out.how = "raised"
    THEN out
    ELSE IF out.result.content # <<>>
         THEN IF out.result.content[1].type = "text"
              THEN ReturnStr(<<out.result.content[1].text>>)
              ELSE Raise("AttributeError", <<"no attribute 'text'">>)
         ELSE ReturnStr(Str(out.result))

\* the try/except of function_wrapper around route_tool_call and the unpacking of
\* its result: result.content[0].text, str(result), or the message of the
\* exception that except Exception takes
Unpack(tool, out) ==
    IF out.how = "raised"
    THEN IF out.exc \in Exceptions
         THEN ReturnStr(<<"Error executing ", tool, ": ">> \o out.text)
         ELSE out
    ELSE IF out.result.content # <<>>
         THEN IF out.result.content[1].type = "text"
              THEN ReturnStr(<<out.result.content[1].text>>)
              ELSE ReturnStr(<<"Error executing ", tool, ": ", "no attribute 'text'">>)
         ELSE ReturnStr(Str(out.result))

(* ------------------------------ resolution ----------------------------- *)

MinOf(S) == CHOOSE m \in S : \A n \in S : m <= n

MaxOf(S) == CHOOSE m \in S : \A n \in S : m >= n

\* the positions in a tool list of the tools named tool
Positions(list, tool) == {i \in 1..Len(list) : list[i].name = tool}

\* the positions in the key order of self.tools of the services declaring tool
Owners(tool) ==
    {i \in 1..Len(toolsOrder) : Positions(tools[toolsOrder[i]], tool) # {}}

\* a loop that keeps the last service that declares the tool
RouteOwnerLast(tool) ==
    IF Owners(tool) = {} THEN "none" ELSE toolsOrder[MaxOf(Owners(tool))]

\* the loop of route_tool_call: the first service, in the order of self.tools,
\* that declares the tool; "none" when the loops end without a match
RouteOwner(tool) ==
    IF Owners(tool) = {} THEN "none" ELSE toolsOrder[MinOf(Owners(tool))]

\* a loop that keeps the last descriptor with that name
FindToolLast(tool) ==
    LET list == tools[toolsOrder[MaxOf(Owners(tool))]]
    IN list[MaxOf(Positions(list, tool))]

\* the loop of function_wrapper: the first descriptor with that name
FindTool(tool) ==
    LET list == tools[toolsOrder[MinOf(Owners(tool))]]
    IN list[MinOf(Positions(list, tool))]

\* the keys of schema['properties'], or nothing when the schema has none
SchemaKeys(target) == IF target.hasProps THEN target.props ELSE <<>>

\* a zip that binds every value, the surplus ones to the last parameter
BuildArgumentsNoGuard(keys, values) ==
    IF keys = <<>>
    THEN <<>>
    ELSE [i \in 1..Len(values) |-> <<keys[Min(i, Len(keys))], values[i]>>]

\* arguments[keys[i]] = arg for every positional value with i < len(keys)
BuildArguments(keys, values) ==
    [i \in 1..Min(Len(keys), Len(values)) |-> <<keys[i], values[i]>>]

(* ------------------------------- listing ------------------------------- *)

RECURSIVE Flatten(_, _)
\* for name in order: all_tools.extend(registry[name]) when the name has a list
Flatten(registry, order) ==
    IF order = <<>>
    THEN <<>>
    ELSE (IF order[1] \in DOMAIN registry THEN registry[order[1]] ELSE <<>>)
         \o Flatten(registry, Tail(order))

\* get_all_tools(): the lists of self.tools.values(), in the key order of the dict
get_all_tools == Flatten(tools, toolsOrder)

\* a listing that walks the registry and keeps the requested services
GetToolsInRegistryOrder(server_names) ==
    Flatten(tools, SelectSeq(toolsOrder, LAMBDA n : n \in Range(server_names)))

\* get_tools_from_servers(server_names): the loop walks the requested names
get_tools_from_servers(server_names) == Flatten(tools, server_names)

(* ------------------------------ the caller ----------------------------- *)

Ops == {"call_tool", "route_tool_call", "function_wrapper", "get_all_tools",
        "get_tools_from_servers"}

\* values holds the positional arguments of function_wrapper and the names handed
\* to get_tools_from_servers; list is the list a listing operation returns
CallIdle ==
    [pc |-> "idle", op |-> "none", server |-> "none", tool |-> "none",
     arguments |-> <<>>, values |-> <<>>, list |-> <<>>, ch |-> 0, elapsed |-> 0,
     out |-> NoOutcomeYet]

\* what the entry point hands its caller: function_wrapper converts, the others
\* pass the outcome through
Outcome(op, tool, out) == IF op = "function_wrapper" THEN Unpack(tool, out) ELSE out

\* the operation is over with outcome out
Done(c, out) ==
    [c EXCEPT !.pc = "done", !.elapsed = 0, !.out = Outcome(c.op, c.tool, out)]

\* the membership test of call_tool
Connected(server) == server \in DOMAIN sessions

\* call_tool up to its await: NotConnected, or the call is issued on the channel
\* of the session under wait_for
CallToolBody(c, server) ==
    IF ~Connected(server)
    THEN Done([c EXCEPT !.server = server], NotConnected(server))
    ELSE [c EXCEPT !.pc = "waiting", !.server = server, !.ch = sessions[server],
                   !.elapsed = 0]

\* route_tool_call up to its await
RouteBody(c) ==
    IF RouteOwner(c.tool) = "none"
    THEN Done(c, NotFound(c.tool))
    ELSE CallToolBody(c, RouteOwner(c.tool))

\* function_wrapper up to its await
WrapperBody(c, values) ==
    IF Owners(c.tool) = {}
    THEN [c EXCEPT !.pc = "done", !.values = values, !.out = WrapperNotFound(c.tool)]
    ELSE RouteBody([c EXCEPT !.values = values, !.arguments =
                        BuildArguments(SchemaKeys(FindTool(c.tool)), values)])

NewCall(op, tool, arguments) ==
    [CallIdle EXCEPT !.op = op, !.tool = tool, !.arguments = arguments]

\* call_tool(server_name, tool_name, arguments) is called
CallTool ==
    /\ call.pc = "idle"
    /\ \E server \in ServerNames, tool \in ToolNames, a \in ArgMaps :
         call' = CallToolBody(NewCall("call_tool", tool, a), server)
    /\ UNCHANGED <<server_configs, path, channels, exit_stack, sessions, tools,
                   toolsOrder, start, stop>>

\* route_tool_call(tool_name, arguments) is called
RouteToolCall ==
    /\ call.pc = "idle"
    /\ \E tool \in ToolNames, a \in ArgMaps :
         call' = RouteBody(NewCall("route_tool_call", tool, a))
    /\ UNCHANGED <<server_configs, path, channels, exit_stack, sessions, tools,
                   toolsOrder, start, stop>>

\* function_wrapper(tool_name, *args) is called
FunctionWrapper ==
    /\ call.pc = "idle"
    /\ \E tool \in ToolNames, values \in ValueLists :
         call' = WrapperBody(NewCall("function_wrapper", tool, <<>>), values)
    /\ UNCHANGED <<server_configs, path, channels, exit_stack, sessions, tools,
                   toolsOrder, start, stop>>

\* get_all_tools() is called: it has no await and returns at once
GetAllTools ==
    /\ call.pc = "idle"
    /\ call' = [CallIdle EXCEPT !.pc = "done", !.op = "get_all_tools",
                                !.list = get_all_tools,
                                !.out = Return(NoResult)]
    /\ UNCHANGED <<server_configs, path, channels, exit_stack, sessions, tools,
                   toolsOrder, start, stop>>

\* get_tools_from_servers(server_names) is called: it has no await either
GetToolsFromServers ==
    /\ call.pc = "idle"
    /\ \E server_names \in NameLists :
         call' = [CallIdle EXCEPT !.pc = "done", !.op = "get_tools_from_servers",
                                 !.values = server_names,
                                 !.list = get_tools_from_servers(server_names),
                                 !.out = Return(NoResult)]
    /\ UNCHANGED <<server_configs, path, channels, exit_stack, sessions, tools,
                   toolsOrder, start, stop>>

\* the services after the current one, in the order of self.tools, that declare
\* the tool of the call
LaterOwners ==
    {i \in Owners(call.tool) : \E j \in 1..Len(toolsOrder) :
                                    toolsOrder[j] = call.server /\ j < i}

\* an answer after which a failed call is tried on the next service that declares
\* the tool
CallRespondFallback ==
    /\ call.pc = "waiting"
    /\ call.elapsed < CallTimeout
    /\ \/ /\ channels[call.ch].closes = 0
          /\ \E r \in RemoteResults : call' = Done(call, Return(r))
       \/ IF LaterOwners # {}
          THEN call' = CallToolBody(call, toolsOrder[MinOf(LaterOwners)])
          ELSE call' = Done(call, Raise("McpError", <<"remote error">>))
    /\ UNCHANGED <<server_configs, path, channels, exit_stack, sessions, tools,
                   toolsOrder, start, stop>>

\* the service answers the call before the deadline: with a result while its
\* channel is open, or with an error
CallRespond ==
    /\ call.pc = "waiting"
    /\ call.elapsed < CallTimeout
    /\ \/ /\ channels[call.ch].closes = 0
          /\ \E r \in RemoteResults : call' = Done(call, Return(r))
       \/ call' = Done(call, Raise("McpError", <<"remote error">>))
    /\ UNCHANGED <<server_configs, path, channels, exit_stack, sessions, tools,
                   toolsOrder, start, stop>>

\* a wait_for whose deadline passes at once
CallDeadlineAnyTime ==
    /\ call.pc = "waiting"
    /\ call' = [Done(call, TimedOut(call.server, call.tool)) EXCEPT
                    !.elapsed = call.elapsed]
    /\ UNCHANGED <<server_configs, path, channels, exit_stack, sessions, tools,
                   toolsOrder, start, stop>>

\* a deadline that also drops the session of the service that did not answer
CallDeadlineDropsSession ==
    /\ call.pc = "waiting"
    /\ call.elapsed = CallTimeout
    /\ call' = [Done(call, TimedOut(call.server, call.tool)) EXCEPT
                    !.elapsed = call.elapsed]
    /\ sessions' = [n \in DOMAIN sessions \ {call.server} |-> sessions[n]]
    /\ UNCHANGED <<server_configs, path, channels, exit_stack, tools,
                   toolsOrder, start, stop>>

\* the deadline of wait_for(session.call_tool(...), 20.0) passes
CallDeadline ==
    /\ call.pc = "waiting"
    /\ call.elapsed = CallTimeout
    /\ call' = [Done(call, TimedOut(call.server, call.tool)) EXCEPT
                    !.elapsed = call.elapsed]
    /\ UNCHANGED <<server_configs, path, channels, exit_stack, sessions, tools,
                   toolsOrder, start, stop>>

\* the caller takes the outcome
CallReturn ==
    /\ call.pc = "done"
    /\ call' = CallIdle
    /\ UNCHANGED <<server_configs, path, channels, exit_stack, sessions, tools,
                   toolsOrder, start, stop>>

(* ------------------------------ the clock ------------------------------ *)

\* the time left to each armed deadline
Remaining ==
    (IF start.pc = "init" THEN {InitTimeout - start.elapsed} ELSE {})
    \cup (IF call.pc = "waiting" THEN {CallTimeout - call.elapsed} ELSE {})

\* time passes, up to the nearest deadline
Tick ==
    /\ Remaining # {}
    /\ \A r \in Remaining : r > 0
    /\ LET d == Min(TickUnit, MinOf(Remaining)) IN
         /\ start' = IF start.pc = "init"
                     THEN [start EXCEPT !.elapsed = start.elapsed + d] ELSE start
         /\ call' = IF call.pc = "waiting"
                    THEN [call EXCEPT !.elapsed = call.elapsed + d] ELSE call
    /\ UNCHANGED <<server_configs, path, channels, exit_stack, sessions, tools,
                   toolsOrder, stop>>

(* --------------------------- the specification ------------------------- *)

Init ==
    /\ server_configs \in Configs
    /\ path = DefaultHost
    /\ channels = Empty
    /\ exit_stack = <<>>
    /\ sessions = Empty
    /\ tools = Empty
    /\ toolsOrder = <<>>
    /\ start = StartIdle
    /\ stop = StopIdle
    /\ call = CallIdle

Next ==
    \/ StartBegin
    \/ StartOpen
    \/ StartInitDone
    \/ StartInitTimeout
    \/ StartListDone
    \/ StopBegin
    \/ StopClose
    \/ StopEnd
    \/ CallTool
    \/ RouteToolCall
    \/ FunctionWrapper
    \/ GetAllTools
    \/ GetToolsFromServers
    \/ CallRespond
    \/ CallDeadline
    \/ CallReturn
    \/ Tick

Spec == Init /\ [][Next]_vars

(* ------------------------------- claims -------------------------------- *)

Configured == {server_configs[i].name : i \in 1..Len(server_configs)}

\* the services whose startup succeeded in the current or last start()
Succeeded == {n \in Configured : start.outcome[n] = "ok"}

\* C1: start() never raises, whatever the startup outcomes of the services are;
\* when it has returned every configured service has been tried, every service
\* whose channel open, handshake and tool-list query succeeded is registered, and
\* after the first start() the registered services are exactly those; the
\* registered services are always configured ones.
C1_StartIsolatesFailures ==
    /\ start.result # "raised"
    /\ DOMAIN sessions \subseteq Configured
    /\ (start.round >= 1 /\ start.pc = "idle") =>
         /\ start.result = "returned"
         /\ \A n \in Configured : start.outcome[n] # "none"
         /\ Succeeded \subseteq DOMAIN sessions
         /\ start.round = 1 => DOMAIN sessions = Succeeded

\* the first start() has returned; the first service timed out in its handshake
\* and the second, started after it, is the only registered one
C1_Witness ==
    /\ start.pc = "idle"
    /\ start.round = 1
    /\ Len(server_configs) = 2
    /\ start.outcome[server_configs[1].name] = "HandshakeTimeout"
    /\ start.outcome[server_configs[2].name] = "ok"
    /\ DOMAIN sessions = {server_configs[2].name}

\* a step of start()
StartStep == StartOpen \/ StartInitDone \/ StartInitTimeout \/ StartListDone

\* C2: start() is never blocked by a service that does not answer: while start()
\* runs, either one of its steps can be taken or the deadline of the step it
\* waits in is running.
C2_StartNeverBlocked ==
    start.pc # "idle" => (ENABLED StartStep \/ start.pc = "init")

\* the channel of the session registered for a service is open
Live(server) ==
    /\ server \in DOMAIN sessions
    /\ channels[sessions[server]].closes = 0

\* the caller's operation ended in the Timeout failure of call_tool
TimedOutCall ==
    /\ call.pc = "done"
    /\ call.op \in {"call_tool", "route_tool_call"}
    /\ call.out.exc = "TimeoutError"

\* C3: a pending call never waits past the deadline of 20: at the deadline time
\* stands still, no answer is taken any more and the Timeout failure is due; the
\* Timeout failure is raised at 20 and at no other time, it names the service and
\* the tool, and after it the service is still registered, so that the next
\* call_tool on it is issued on its channel.
C3_CallTimeout ==
    /\ call.pc = "waiting" => call.elapsed <= CallTimeout
    /\ (call.pc = "waiting" /\ call.elapsed = CallTimeout) =>
         /\ ENABLED CallDeadline
         /\ ~ENABLED Tick
         /\ ~ENABLED CallRespond
    /\ (call.pc = "done" /\ call.op \in {"call_tool", "route_tool_call"}) =>
         (call.elapsed = CallTimeout <=> call.out.exc = "TimeoutError")
    /\ TimedOutCall =>
         /\ call.out.how = "raised"
         /\ call.ch # 0
         /\ Contains(call.out.text, call.server)
         /\ Contains(call.out.text, call.tool)
         /\ call.server \in DOMAIN sessions
         /\ CallToolBody(NewCall("call_tool", call.tool, call.arguments),
                         call.server).pc = "waiting"

\* a call_tool timed out and the channel of its service is still open
C3_Witness ==
    /\ TimedOutCall
    /\ call.op = "call_tool"
    /\ call.elapsed = CallTimeout
    /\ Live(call.server)
    /\ sessions[call.server] = call.ch

\* the services that declare a tool of that name
Declaring(tool) ==
    {n \in DOMAIN tools : \E i \in 1..Len(tools[n]) : tools[n][i].name = tool}

\* service a was registered before service b
RegisteredBefore(a, b) ==
    \E i, j \in 1..Len(toolsOrder) :
        i < j /\ toolsOrder[i] = a /\ toolsOrder[j] = b

\* n declares the tool and was registered before every other service declaring it
FirstRegistered(tool, n) ==
    /\ n \in Declaring(tool)
    /\ \A m \in Declaring(tool) \ {n} : RegisteredBefore(n, m)

\* route_tool_call issues its call
InvokeDispatched ==
    /\ call.pc = "idle"
    /\ call'.op = "route_tool_call"
    /\ call'.pc = "waiting"

\* C4: every call issued by route_tool_call goes to the service that was
\* registered first among the services declaring the tool name, so that in one
\* registry state every invoke of a name picks the same service and a later
\* registered owner is never called.
C4_FirstRegisteredOwner ==
    [][InvokeDispatched => FirstRegistered(call'.tool, call'.server)]_vars

\* an invoke is pending on the first registered of two live services that both
\* declare the tool; the owner is the second configured service
C4_Witness ==
    /\ call.pc = "waiting"
    /\ call.op = "route_tool_call"
    /\ Cardinality(Declaring(call.tool)) >= 2
    /\ \A n \in Declaring(call.tool) : Live(n)
    /\ FirstRegistered(call.tool, call.server)
    /\ call.server = server_configs[2].name

\* the tool names route_tool_call resolves
Resolvable == {t \in {"echo", "add", "missing"} : RouteOwner(t) # "none"}

\* C5: every tool name the router resolves belongs to a service whose session is
\* registered and whose channel is open, also after stop().
C5_ResolvableToolsAreLive ==
    \A t \in Resolvable : Live(RouteOwner(t))

\* stop() returns
StopReturns == stop.pc = "closing" /\ stop'.pc = "idle"

\* C6: when stop() returns no session is registered, and a stop() of a router
\* that never opened a channel returns without an error.
C6_StopLeavesNoSession ==
    [][StopReturns =>
         /\ DOMAIN sessions' = {}
         /\ channels = Empty => stop'.result = "returned"]_vars

\* C7: no channel is closed more than once, and when stop() returns every channel
\* opened so far has been closed, the channels of the services that start()
\* skipped included.
C7_ChannelsClosedOnce ==
    /\ [](\A ch \in DOMAIN channels : channels[ch].closes <= 1)
    /\ [][StopReturns =>
            \A ch \in DOMAIN channels' : channels'[ch].closes = 1]_vars

\* start() skipped a service after its handshake timed out, stop() has returned,
\* and the channel of that service, which was never registered, is closed
C7_Witness ==
    /\ start.pc = "idle"
    /\ start.round = 1
    /\ stop.pc = "idle"
    /\ stop.result # "none"
    /\ exit_stack = <<>>
    /\ \E ch \in DOMAIN channels :
         /\ start.outcome[channels[ch].server] = "HandshakeTimeout"
         /\ channels[ch].server \notin DOMAIN sessions
         /\ channels[ch].closes = 1

\* C8: stop() returns without raising, also when the exit of a context raised,
\* and every channel opened so far has been closed by then.
C8_StopSwallowsCloseErrors ==
    [][StopReturns =>
         /\ stop'.result = "returned"
         /\ \A ch \in DOMAIN channels' : channels'[ch].closes >= 1]_vars

\* a string that reports a failure and names the tool
FailureShaped(str, tool) ==
    /\ Len(str) >= 1
    /\ str[1] \in {"Error: Tool ", "Error executing "}
    /\ Contains(str, tool)

\* function_wrapper is called with a tool name that no service declares
WrapperOnUnknownTool ==
    /\ call.pc = "idle"
    /\ call'.op = "function_wrapper"
    /\ Declaring(call'.tool) = {}

\* C9: function_wrapper always returns a string and never raises: for a tool name
\* no service declares it returns at once, with no call issued, a failure string
\* naming the tool; and whatever it returns that is not the text of the result or
\* the string form of a result without content is a failure string naming the tool.
C9_WrapperNeverRaises ==
    /\ []((call.pc = "done" /\ call.op = "function_wrapper") =>
            /\ call.out.how = "returned"
            /\ call.out.exc = "none"
            /\ call.out.result = NoResult
            /\ call.ch = 0 => FailureShaped(call.out.text, call.tool)
            /\ \/ call.out.text = <<"payload">>
               \/ call.out.text = Str([content |-> <<>>])
               \/ FailureShaped(call.out.text, call.tool))
    /\ [][WrapperOnUnknownTool =>
            /\ call'.pc = "done"
            /\ call'.ch = 0
            /\ FailureShaped(call'.out.text, call'.tool)]_vars

\* function_wrapper returned the failure string of a call that timed out
C9_Witness ==
    /\ call.pc = "done"
    /\ call.op = "function_wrapper"
    /\ call.ch # 0
    /\ call.out.how = "returned"
    /\ call.out.text[1] = "Error executing "
    /\ Contains(call.out.text, "' timed out after 20 seconds.")

\* call_tool is called
CallToolCalled == call.pc = "idle" /\ call'.op = "call_tool"

\* C10: call_tool on a service without a live session (never configured, failed
\* or timed out at startup, or torn down by a stop() that has returned) fails with
\* NotConnected and issues no call on a channel.
C10_NotConnectedWithoutLiveSession ==
    [][(CallToolCalled /\ stop.pc = "idle" /\ ~Live(call'.server)) =>
         /\ call'.pc = "done"
         /\ call'.ch = 0
         /\ call'.out = NotConnected(call'.server)]_vars

\* route_tool_call is called
RouteCalled == call.pc = "idle" /\ call'.op = "route_tool_call"

\* the services with a live session that declare the tool
LiveDeclaring(tool) == {n \in Declaring(tool) : Live(n)}

\* C11: route_tool_call (with no stop() under way) fails with NotFound, a
\* ValueError handed to the caller with no call issued, exactly when no service
\* with a live session declares the tool; otherwise it issues one call, on the
\* session of the first-registered service declaring the tool, with the same tool
\* name and the argument mapping it was handed.
C11_NotFoundIffNoLiveOwner ==
    [][(RouteCalled /\ stop.pc = "idle") =>
         IF LiveDeclaring(call'.tool) = {}
         THEN /\ call'.pc = "done"
              /\ call'.ch = 0
              /\ call'.out = NotFound(call'.tool)
         ELSE /\ call'.pc = "waiting"
              /\ FirstRegistered(call'.tool, call'.server)
              /\ call'.ch = sessions[call'.server]
              /\ call'.arguments \in ArgMaps]_vars

\* get_all_tools is called
ListAllCalled == call.pc = "idle" /\ call'.op = "get_all_tools"

\* a start() has returned and none is under way
StartReturned == start.pc = "idle" /\ start.result = "returned"

RECURSIVE LiveInConfiguredOrder(_)
\* the tool lists of the services with a live session, from the i-th configured
\* service on, in configured order
LiveInConfiguredOrder(i) ==
    IF i > Len(server_configs)
    THEN <<>>
    ELSE (IF Live(server_configs[i].name) THEN tools[server_configs[i].name] ELSE <<>>)
         \o LiveInConfiguredOrder(i + 1)

\* C12: get_all_tools, called after start() has returned and with no stop() under
\* way, returns exactly the concatenation, in configured service order and then in
\* each service's declared order, of the tool lists of the services with a live
\* session, equal names included; a live service without tools and a service that
\* failed startup contribute nothing.
C12_ListAllIsLiveToolsInConfigOrder ==
    [][(ListAllCalled /\ StartReturned /\ stop.pc = "idle") =>
         /\ call'.pc = "done"
         /\ call'.list = LiveInConfiguredOrder(1)]_vars

(* --------------------- the argument adapter on its own ------------------ *)

\* the schemas the adapter is run on: no "properties", and zero to three
\* declared parameters
AdapterSchemas ==
    { Tool("echo", FALSE, <<>>),
      Tool("echo", TRUE, <<>>),
      Tool("echo", TRUE, <<"text">>),
      Tool("echo", TRUE, <<"x", "y">>),
      Tool("echo", TRUE, <<"x", "y", "z">>) }

\* the router after a start() of one service that declared one tool
InitAdapter ==
    /\ server_configs = SubSeq(DefaultConfig, 1, 1)
    /\ path = DefaultHost
    /\ channels = DictSet(Empty, ChanId(1, 1),
                          [server |-> DefaultNames[1], closes |-> 0,
                           command |-> DefaultConfig[1].command,
                           args |-> DefaultConfig[1].args])
    /\ exit_stack = <<ChanId(1, 1)>>
    /\ sessions = DictSet(Empty, DefaultNames[1], ChanId(1, 1))
    /\ \E target \in AdapterSchemas : tools = DictSet(Empty, DefaultNames[1], <<target>>)
    /\ toolsOrder = <<DefaultNames[1]>>
    /\ start = [StartIdle EXCEPT !.round = 1, !.result = "returned",
                                 !.outcome[DefaultNames[1]] = "ok",
                                 !.launch = ResolveCommand(DefaultConfig[1])]
    /\ stop = StopIdle
    /\ call = CallIdle

\* the serving phase: function_wrapper calls and their answers
NextAdapter ==
    \/ FunctionWrapper
    \/ CallRespond
    \/ CallDeadline
    \/ CallReturn
    \/ Tick

SpecAdapter == InitAdapter /\ [][NextAdapter]_vars

\* function_wrapper is called on a tool that some service declares
WrapperResolved ==
    /\ call.pc = "idle"
    /\ call'.op = "function_wrapper"
    /\ Owners(call'.tool) # {}

\* C13: function_wrapper maps the i-th positional value to the i-th parameter
\* name of the schema of the tool it found: the mapping has exactly
\* min(len(values), len(parameters)) entries, the i-th being parameter i -> value
\* i, so surplus values are dropped, trailing parameters without a value are
\* absent, and a schema without parameters gives the empty mapping.
C13_AdapterZipsPairwise ==
    [][WrapperResolved =>
         LET target == FindTool(call'.tool)
             p == IF target.hasProps THEN target.props ELSE <<>>
             v == call'.values
             m == call'.arguments
         IN /\ Len(m) = Min(Len(v), Len(p))
            /\ \A i \in 1..Len(m) : m[i] = <<p[i], v[i]>>
            /\ (p = <<>> => m = <<>>)]_vars

\* two values were handed to a tool with one parameter: the second was dropped
C13_Witness ==
    /\ call.op = "function_wrapper"
    /\ call.pc = "waiting"
    /\ Len(call.values) = 2
    /\ call.arguments = << <<"text", "v1">> >>

\* get_tools_from_servers is called
ListForCalled == call.pc = "idle" /\ call'.op = "get_tools_from_servers"

\* every registered session is live: no stop() has closed a registered channel
AllRegisteredLive == \A n \in DOMAIN sessions : Live(n)

\* the list get_all_tools would return, cut down to the services in names
ListAllRestricted(names) ==
    Flatten(tools, SelectSeq(toolsOrder, LAMBDA n : n \in Range(names)))

\* no name occurs twice in names
Distinct(names) == \A i, j \in 1..Len(names) : names[i] = names[j] => i = j

RECURSIVE InRequestedOrder(_, _)
\* the registered tool lists of names[i], names[i+1], ..., one after the other
InRequestedOrder(names, i) ==
    IF i > Len(names)
    THEN <<>>
    ELSE (IF names[i] \in DOMAIN tools THEN tools[names[i]] ELSE <<>>)
         \o InRequestedOrder(names, i + 1)

OpenedFor(n) == {id \in DOMAIN channels : channels[id].server = n}

\* the channels opened by the first start()
FirstRound == {ChanId(1, i) : i \in 1..Len(DefaultNames)}

\* C15: whatever start(), stop() and the callers have done so far, start() called
\* more than once included, at most one channel has been opened for each service
\* name, and a service is bound to the session of the first start() or to none: no
\* later start() rebinds a bound name or binds a service that failed before.
C15_NoRecreationNoRetry ==
    \A n \in ServerNames :
        /\ Cardinality(OpenedFor(n)) <= 1
        /\ n \in DOMAIN sessions => sessions[n] \in FirstRound

(* ------------------------ the launch on its own ------------------------- *)

\* one service with any declared command and arguments, on any host
LaunchConfigs ==
    {<<Config(DefaultNames[1], c, a)>> : c \in Commands, a \in ArgLists}

InitLaunch ==
    /\ server_configs \in LaunchConfigs
    /\ path \in Hosts
    /\ channels = Empty
    /\ exit_stack = <<>>
    /\ sessions = Empty
    /\ tools = Empty
    /\ toolsOrder = <<>>
    /\ start = StartIdle
    /\ stop = StopIdle
    /\ call = CallIdle

\* start() and the clock
NextLaunch ==
    \/ StartBegin
    \/ StartOpen
    \/ StartInitDone
    \/ StartInitTimeout
    \/ StartListDone
    \/ Tick

SpecLaunch == InitLaunch /\ [][NextLaunch]_vars

\* start() resolves the command line of the current service and launches it
LaunchStep == start.pc = "open" /\ start' # start

\* the list without its leading "run"
DropRun(a) == IF Len(a) >= 1 /\ a[1] = "run" THEN SubSeq(a, 2, Len(a)) ELSE a

\* C16 as stated: whenever the declared command of a service (uv when none is
\* declared) is not on the host, whatever the command is, start() launches the
\* interpreter instead, with the leading "run" dropped from the arguments.
C16_FallbackForEveryCommand ==
    [][(LaunchStep /\ ~Which(DeclaredCommand(server_configs[start.idx]))) =>
         start'.launch = Launch(Interpreter, DropRun(server_configs[start.idx].args))]_vars

\* C16, amended: when the declared command is uv (or none is declared) and uv is
\* not on the host, start() launches the interpreter instead, with the leading
\* "run" dropped from the arguments; every other command is launched as declared
\* with its arguments unchanged, and when it is not on the host the launch fails
\* and the service is skipped.  A channel that opens runs the resolved command.
C16_FallbackForUvOnly ==
    [][LaunchStep =>
         LET config   == server_configs[start.idx]
             declared == DeclaredCommand(config)
             opened   == start'.pc = "init"
         IN /\ IF declared = "uv" /\ "uv" \notin path
               THEN start'.launch = Launch(Interpreter, DropRun(config.args))
               ELSE start'.launch = Launch(declared, config.args)
            /\ opened => /\ channels'[start'.ch].command = start'.launch.command
                         /\ channels'[start'.ch].args = start'.launch.args
            /\ (declared # "uv" /\ declared \notin path) =>
                  /\ ~opened
                  /\ channels' = channels
                  /\ start'.outcome[config.name] = "LaunchFailure"]_vars

\* uv is not on the host: the channel of a service declared as "uv run server.py"
\* was opened as "python server.py"
C16_Witness ==
    /\ start.pc = "init"
    /\ "uv" \notin path
    /\ DeclaredCommand(server_configs[start.idx]) = "uv"
    /\ server_configs[start.idx].args = <<"run", "server.py">>
    /\ channels[start.ch].command = Interpreter
    /\ channels[start.ch].args = <<"server.py">>

\* C17: at every point where the tasks can interleave, the services that have a
\* tool list are the services that have a session, so a route_tool_call never
\* ends with the NotConnected failure of call_tool.
C17_ToolsAndSessionsSameKeys ==
    /\ DOMAIN tools = DOMAIN sessions
    /\ Range(toolsOrder) = DOMAIN tools
    /\ (call.op = "route_tool_call" /\ call.pc = "done") =>
           \A n \in ServerNames : call.out # NotConnected(n)

\* a routed call is waiting for its answer while start() is in the middle of
\* starting a further service
C17_Witness ==
    /\ call.op = "route_tool_call"
    /\ call.pc = "waiting"
    /\ start.pc \in {"init", "list"}
    /\ DOMAIN sessions # {}
    /\ call.server \in DOMAIN sessions

\* the first descriptor named tool in the tool list of a service
FirstDescriptor(server, tool) ==
    LET list == tools[server]
        i == CHOOSE k \in 1..Len(list) :
                 /\ list[k].name = tool
                 /\ \A j \in 1..(k - 1) : list[j].name # tool
    IN list[i]

\* C18: function_wrapper on a tool that some service declares dispatches as
\* route_tool_call does, to the session of the first-registered service declaring
\* the tool, and the argument mapping it sends is built from the parameters of
\* that service's descriptor; this holds when a later service declares the name
\* with other parameters and at whatever point of start() and stop() it is called.
C18_WrapperUsesFirstOwnerSchema ==
    [][WrapperResolved =>
         LET d == FirstDescriptor(call'.server, call'.tool)
             p == IF d.hasProps THEN d.props ELSE <<>>
             v == call'.values
             m == call'.arguments
         IN /\ call'.pc = "waiting"
            /\ FirstRegistered(call'.tool, call'.server)
            /\ call'.ch = sessions[call'.server]
            /\ Len(m) = Min(Len(v), Len(p))
            /\ \A i \in 1..Len(m) : m[i] = <<p[i], v[i]>>]_vars

\* two services declare the tool with different parameters; function_wrapper,
\* called in the middle of a start(), sent the first one's parameter names to the
\* first one
C18_Witness ==
    /\ call.op = "function_wrapper"
    /\ call.pc = "waiting"
    /\ start.pc # "idle"
    /\ Len(toolsOrder) = 2
    /\ Declaring(call.tool) = {toolsOrder[1], toolsOrder[2]}
    /\ FirstDescriptor(toolsOrder[1], call.tool).props
         # FirstDescriptor(toolsOrder[2], call.tool).props
    /\ call.server = toolsOrder[1]
    /\ call.arguments # <<>>
    /\ call.arguments[1][1] = FirstDescriptor(toolsOrder[1], call.tool).props[1]

\* a caller step: the caller task moves
CallerStep == call' # call

\* the registry: the session map and the tool lists
registry == <<sessions, tools, toolsOrder>>

\* C19: no step of get_all_tools, get_tools_from_servers, route_tool_call,
\* call_tool or function_wrapper, whatever its outcome, changes the session map
\* or the tool lists; a step that changes them is a step of start() or stop().
C19_CallersLeaveRegistry ==
    [][/\ CallerStep => registry' = registry
       /\ registry' # registry => (start' # start \/ stop' # stop)]_vars

\* a routed call has timed out and its service is still registered with the same
\* session
C19_Witness ==
    /\ call.op = "route_tool_call"
    /\ call.pc = "done"
    /\ call.out = TimedOut(call.server, call.tool)
    /\ call.server \in DOMAIN sessions
    /\ sessions[call.server] = call.ch
    /\ call.server \in DOMAIN tools

\* a step of a route_tool_call whose call has been issued
RoutedCallStep ==
    /\ call.op = "route_tool_call"
    /\ call.pc = "waiting"
    /\ call' # call

\* C20: a route_tool_call issues its call once, on one channel: once the call is
\* issued it stays on the same service and channel until it ends, a deadline that
\* has passed ends it with the Timeout failure, a failure is handed to the caller
\* as it is, and after the end no further call is issued for this invocation.
C20_OneCallNoFallback ==
    [][/\ RoutedCallStep =>
            /\ call'.op = call.op
            /\ call'.tool = call.tool
            /\ call'.server = call.server
            /\ call'.ch = call.ch
            /\ call'.pc \in {"waiting", "done"}
            /\ call'.pc = "done" => call'.out.how \in {"returned", "raised"}
            /\ call.elapsed = CallTimeout =>
                   /\ call'.pc = "done"
                   /\ call'.out = TimedOut(call.server, call.tool)
       /\ (call.pc = "done" /\ call' # call) => call' = CallIdle]_vars

\* the call to the first of two live services declaring the tool failed, and the
\* failure is what route_tool_call ended with
C20_Witness ==
    /\ call.op = "route_tool_call"
    /\ call.pc = "done"
    /\ call.out.how = "raised"
    /\ call.out.exc = "McpError"
    /\ Len(toolsOrder) = 2
    /\ call.server = toolsOrder[1]
    /\ Declaring(call.tool) = {toolsOrder[1], toolsOrder[2]}
    /\ \A n \in Declaring(call.tool) : Live(n)

====
